---- MODULE Spec2Model ----
(***************************************************************************)
(* Benchmark harness of Zuytan/rustrade: scripts/compare_strategies.py and *)
(* scripts/validate_risk_filter.py.  Both scripts drive the external       *)
(* evaluator (cargo run --bin benchmark) over a matrix of trials, parse    *)
(* its report with one regular expression, persist a CSV table and print   *)
(* aggregate statistics.                                                   *)
(*                                                                         *)
(* A text is a sequence of tokens.  The keywords of the performance        *)
(* pattern ("Return:", "Net:", "Trades:") are one token each; every other  *)
(* token is one character.  Numbers are exact decimals <<n, k>> standing   *)
(* for n * 10^(-k), normalised so that n has no trailing zero when k > 0.  *)
(***************************************************************************)
EXTENDS Integers, Sequences, FiniteSets, TLC

VARIABLES
    script,       \* which script runs: "compare_strategies" | "validate_risk_filter" | "run_benchmark"
    PERIODS,      \* configured periods, each <<name, start_date, end_date>>
    SYMBOLS,      \* configured symbols
    STRATEGIES,   \* configured strategies (compare_strategies only)
    pc,           \* position of main()
    si, pi, yi,   \* loop positions: strategy, period, symbol (1-based)
    alive,        \* evaluator processes spawned and not yet reaped (their trial numbers)
    started,      \* number of subprocess.run calls made so far
    invocations,  \* the argument tuples passed to run_benchmark, in call order
    result,       \* the dict returned by the current run_benchmark call
    results,      \* compare_strategies: strategy -> list of rows; validate_risk_filter: <<>> unused
    vresults,     \* validate_risk_filter: list of rows
    csv,          \* the persisted table: NoFile or [header, rows]
    writes,       \* number of times the table file was opened for writing
    report,       \* the summary lines printed after the table is saved
    evaluator,    \* what the external evaluator may print in this run
    proc,         \* run_benchmark in isolation: the process's [stdout, stderr]
    outcome       \* run_benchmark in isolation: exit code -> returned dict (or None)

vars == <<script, PERIODS, SYMBOLS, STRATEGIES, pc, si, pi, yi, alive, started,
          invocations, result, results, vresults, csv, writes, report, evaluator, proc,
          outcome>>

\* Python's None, where a dict is expected
None == [status |-> "None"]
\* no table file on disk (a written file always has its header row)
NoFile == [header |-> <<>>, rows |-> <<>>]

(***************************************************************************)
(* Character classes of the regular expression.                            *)
(***************************************************************************)
Digit == {"0", "1", "2", "3", "4", "5", "6", "7", "8", "9"}
Space == {" ", "\n", "\t"}
NumChar == Digit \cup {"-", "."}
Keyword == {"Return:", "Net:", "Trades:"}
Alphabet == Digit \cup Space \cup Keyword \cup {"-", ".", "%", "$", "|", "x"}
\* "." without re.DOTALL: any character but the line break
AnyButNewline == Alphabet \ {"\n"}

Lit(tok) == [kind |-> "lit", tok |-> tok, class |-> {}, min |-> 0, group |-> 0]
Greedy(class, min, group) ==
    [kind |-> "greedy", tok |-> "", class |-> class, min |-> min, group |-> group]
Lazy(class) == [kind |-> "lazy", tok |-> "", class |-> class, min |-> 0, group |-> 0]

\* r'Return:\s*([-\d.]+)%.*?Net:\s*\$([-\d.]+).*?Trades:\s*(\d+)'
PATTERN ==
    << Lit("Return:"), Greedy(Space, 0, 0), Greedy(NumChar, 1, 1), Lit("%"),
       Lazy(AnyButNewline),
       Lit("Net:"), Greedy(Space, 0, 0), Lit("$"), Greedy(NumChar, 1, 2),
       Lazy(AnyButNewline),
       Lit("Trades:"), Greedy(Space, 0, 0), Greedy(Digit, 1, 3) >>

NoMatch == [ok |-> FALSE, groups |-> <<>>]

\* length of the longest run of characters of class starting at position i
RECURSIVE RunLen(_, _, _)
RunLen(t, i, class) ==
    IF i <= Len(t) /\ t[i] \in class THEN 1 + RunLen(t, i + 1, class) ELSE 0

\* the backtracking matcher: pattern element k onwards against t from position i
RECURSIVE MatchFrom(_, _, _, _), TryGreedy(_, _, _, _, _), TryLazy(_, _, _, _, _, _)
MatchFrom(t, k, i, caps) ==
    IF k > Len(PATTERN) THEN [ok |-> TRUE, groups |-> caps]
    ELSE LET e == PATTERN[k] IN
         CASE e.kind = "lit" ->
                 IF i <= Len(t) /\ t[i] = e.tok
                 THEN MatchFrom(t, k + 1, i + 1, caps)
                 ELSE NoMatch
           [] e.kind = "greedy" -> TryGreedy(t, k, i, caps, RunLen(t, i, e.class))
           [] e.kind = "lazy" -> TryLazy(t, k, i, caps, 0, RunLen(t, i, e.class))

\* a greedy repetition takes c characters, the longest first
TryGreedy(t, k, i, caps, c) ==
    LET e == PATTERN[k] IN
    IF c < e.min THEN NoMatch
    ELSE LET caps2 == IF e.group = 0 THEN caps
                      ELSE [caps EXCEPT ![e.group] = SubSeq(t, i, i + c - 1)]
             r == MatchFrom(t, k + 1, i + c, caps2)
         IN IF r.ok THEN r ELSE TryGreedy(t, k, i, caps, c - 1)

\* a lazy repetition takes c characters, the shortest first
TryLazy(t, k, i, caps, c, max) ==
    IF c > max THEN NoMatch
    ELSE LET r == MatchFrom(t, k + 1, i + c, caps)
         IN IF r.ok THEN r ELSE TryLazy(t, k, i, caps, c + 1, max)

\* re.search: the match at the leftmost position that has one
RECURSIVE SearchFrom(_, _)
SearchFrom(t, i) ==
    IF i > Len(t) THEN NoMatch
    ELSE LET r == MatchFrom(t, 1, i, << <<>>, <<>>, <<>> >>)
         IN IF r.ok THEN r ELSE SearchFrom(t, i + 1)

re_search(t) == SearchFrom(t, 1)

(***************************************************************************)
(* float() and int() on a captured group.                                  *)
(***************************************************************************)
DigitValue(d) ==
    CASE d = "0" -> 0 [] d = "1" -> 1 [] d = "2" -> 2 [] d = "3" -> 3 [] d = "4" -> 4
      [] d = "5" -> 5 [] d = "6" -> 6 [] d = "7" -> 7 [] d = "8" -> 8 [] d = "9" -> 9

RECURSIVE DigitsValue(_)
DigitsValue(s) ==
    IF s = <<>> THEN 0
    ELSE 10 * DigitsValue(SubSeq(s, 1, Len(s) - 1)) + DigitValue(s[Len(s)])

Count(s, c) == Cardinality({i \in 1..Len(s) : s[i] = c})
Unsigned(s) == IF s # <<>> /\ s[1] = "-" THEN Tail(s) ELSE s

\* float(s) raises ValueError unless s is [-]digits[.digits] with a digit in it
FloatValid(s) ==
    LET u == Unsigned(s) IN
    /\ Count(u, "-") = 0
    /\ Count(u, ".") <= 1
    /\ \E i \in 1..Len(u) : u[i] \in Digit

RECURSIVE Normalise(_)
Normalise(v) ==
    IF v[2] > 0 /\ v[1] % 10 = 0 THEN Normalise(<<v[1] \div 10, v[2] - 1>>) ELSE v

float(s) ==
    LET u == Unsigned(s)
        ds == SelectSeq(u, LAMBDA c : c \in Digit)
        dot == IF Count(u, ".") = 0 THEN Len(u) + 1
               ELSE CHOOSE i \in 1..Len(u) : u[i] = "."
        k == IF Count(u, ".") = 0 THEN 0 ELSE Len(u) - dot
        n == DigitsValue(ds)
    IN Normalise(<<IF s[1] = "-" THEN 0 - n ELSE n, k>>)

int(s) == DigitsValue(s)

Zero == <<0, 0>>
Positive(v) == v[1] > 0

RECURSIVE Pow10(_)
Pow10(k) == IF k = 0 THEN 1 ELSE 10 * Pow10(k - 1)

Add(a, b) ==
    LET k == IF a[2] > b[2] THEN a[2] ELSE b[2]
    IN Normalise(<<a[1] * Pow10(k - a[2]) + b[1] * Pow10(k - b[2]), k>>)

(***************************************************************************)
(* run_benchmark, after subprocess.run has returned or raised.             *)
(***************************************************************************)
Failure(status) == [status |-> status, return |-> Zero, net |-> Zero, trades |-> 0]

PARSE_ERROR == Failure("PARSE_ERROR")
TIMEOUT == Failure("TIMEOUT")
\* f'ERROR: {e}' for the exceptions the except clause can see
ERROR_FLOAT == Failure("ERROR: could not convert string to float")
ERROR_LAUNCH == Failure("ERROR: [Errno 2] No such file or directory: 'cargo'")

\* as Completed, had subprocess.run been given check=True: a non-zero exit raises
CompletedCheckingExit(completed) ==
    IF completed.returncode # 0
    THEN Failure("ERROR: Command returned non-zero exit status")
    ELSE LET match == re_search(completed.stdout \o completed.stderr)
         IN IF match.ok /\ FloatValid(match.groups[1]) /\ FloatValid(match.groups[2])
            THEN [status |-> "SUCCESS",
                  return |-> float(match.groups[1]),
                  net |-> float(match.groups[2]),
                  trades |-> int(match.groups[3])]
            ELSE PARSE_ERROR

\* the try body from `output = result.stdout + result.stderr` on; a ValueError
\* of float() is caught by `except Exception`
Completed(completed) ==
    LET output == completed.stdout \o completed.stderr
        match == re_search(output)
    IN IF match.ok
       THEN IF FloatValid(match.groups[1]) /\ FloatValid(match.groups[2])
            THEN [status |-> "SUCCESS",
                  return |-> float(match.groups[1]),
                  net |-> float(match.groups[2]),
                  trades |-> int(match.groups[3])]
            ELSE ERROR_FLOAT
       ELSE PARSE_ERROR

(***************************************************************************)
(* run_benchmark in isolation: one captured text, completed once per exit  *)
(* code.                                                                   *)
(***************************************************************************)
MaxNoise == 1

ExitCodes == {0, 1}

\* pieces of log noise
Chunks == { <<" ">>, <<"\n">>, <<"x">>, <<"|">>, <<"x", "\n", "x">> }

RECURSIVE Flatten(_)
Flatten(ss) == IF ss = <<>> THEN <<>> ELSE Head(ss) \o Flatten(Tail(ss))

NoiseSeqs(n) == UNION {[1..m -> Chunks] : m \in 0..n}

\* the chunks of ns that place sends to slot j, in order
RECURSIVE Slot(_, _, _)
Slot(ns, place, j) ==
    IF ns = <<>> THEN <<>>
    ELSE (IF place[1] = j THEN <<Head(ns)>> ELSE <<>>)
         \o Slot(Tail(ns), Tail(place), j)

\* noise before, between and after the fields, MaxNoise chunks in all
Noises ==
    UNION { { [j \in 1..4 |-> Slot(ns, place, j)] :
                place \in {f \in [1..Len(ns) -> 1..4] :
                              \A a, b \in 1..Len(ns) : a <= b => f[a] <= f[b]} } :
            ns \in NoiseSeqs(MaxNoise) }

ReturnFields ==
    { <<"Return:", " ", "3", ".", "2", "1", "%">>,
      <<"Return:", " ", "1", ".", "2", ".", "3", "%">>,
      <<"Return:", " ", "-", "%">>,
      <<>> }
NetFields ==
    { <<"Net:", " ", "$", "4", "2", ".", "1", "0">>,
      <<"Net:", " ", "$", ".">>,
      <<>> }
TradesFields == { <<"Trades:", " ", "7">>, <<>> }

Texts ==
    { Flatten(ns[1]) \o r \o Flatten(ns[2]) \o n \o Flatten(ns[3]) \o t \o Flatten(ns[4]) :
        ns \in Noises, r \in ReturnFields, n \in NetFields, t \in TradesFields }

\* split of the captured text between standard output and standard error
Splits(t) == {0, Len(t) \div 2, Len(t)}

Idle ==
    /\ PERIODS = <<>> /\ SYMBOLS = <<>> /\ STRATEGIES = <<>>
    /\ pc = "idle" /\ si = 1 /\ pi = 1 /\ yi = 1
    /\ alive = {} /\ started = 0 /\ invocations = <<>> /\ result = None
    /\ results = <<>> /\ vresults = <<>>
    /\ csv = NoFile /\ writes = 0 /\ report = <<>>
    /\ evaluator = {}

InitParse ==
    /\ script = "run_benchmark"
    /\ Idle
    /\ \E t \in Texts : \E k \in Splits(t) :
          proc = [stdout |-> SubSeq(t, 1, k), stderr |-> SubSeq(t, k + 1, Len(t))]
    /\ outcome = [rc \in ExitCodes |-> None]

\* subprocess.run returns a CompletedProcess with exit code rc
Complete(rc) ==
    /\ script = "run_benchmark"
    /\ outcome[rc] = None
    /\ outcome' = [outcome EXCEPT ![rc] =
                     Completed([stdout |-> proc.stdout, stderr |-> proc.stderr,
                                returncode |-> rc])]
    /\ UNCHANGED <<script, PERIODS, SYMBOLS, STRATEGIES, pc, si, pi, yi, alive, started,
                   invocations, result, results, vresults, csv, writes, report, evaluator, proc>>

NextParse == \E rc \in ExitCodes : Complete(rc)

SpecParse == InitParse /\ [][NextParse]_vars


(***************************************************************************)
(* main(): the configuration.                                              *)
(***************************************************************************)
MaxTrials == 3
MaxFairTrials == 2

AllPeriods ==
    << <<"Election_Rally", "2024-11-06", "2024-12-06">>,
       <<"Oct_2024", "2024-10-01", "2024-10-31">>,
       <<"Sep_2024", "2024-09-01", "2024-09-30">>,
       <<"Aug_2024", "2024-08-01", "2024-08-31">> >>
PeriodSet == {AllPeriods[1], AllPeriods[2]}
AllSymbols == <<"AAPL", "NVDA", "TSLA", "MSFT", "JPM", "GOOGL", "AMZN", "META">>
StrategySet == {"advanced", "regime_adaptive"}

Lists(S, n) == UNION {[1..m -> S] : m \in 0..n}
Prefixes(list, n) == {SubSeq(list, 1, m) : m \in 0..n}
Range(f) == {f[i] : i \in DOMAIN f}

\* what the evaluator may print before it exits
EvalOutputs ==
    { [stdout |-> <<"Return:", " ", "1", "%", "|", "Net:", " ", "$", "2", "|",
                    "Trades:", " ", "3">>,
       stderr |-> <<>>],
      [stdout |-> <<"Return:", "-", "1", "%", "Net:", "$", "-", "2", "Trades:", "1">>,
       stderr |-> <<"x">>],
      [stdout |-> <<"x", "\n", "Return:", "0", "%">>,
       stderr |-> <<"Net:", "$", "0", "Trades:", "0">>],
      [stdout |-> <<>>, stderr |-> <<"x", "\n", "x">>] }

\* the evaluator reports a gain, or prints no report
FairOutputs == {o \in EvalOutputs : o.stderr \in {<<>>, <<"x", "\n", "x">>}}

\* the state when main() is entered, for symbol and strategy lists of at most n
\* entries and a matrix of at most n trials
Entry(n, periods, outs) ==
    /\ script \in {"compare_strategies", "validate_risk_filter"}
    /\ PERIODS \in periods
    /\ SYMBOLS \in Prefixes(AllSymbols, n)
    /\ STRATEGIES \in IF script = "compare_strategies" THEN Lists(StrategySet, n) ELSE {<<>>}
    /\ Len(PERIODS) * Len(SYMBOLS)
         * (IF script = "compare_strategies" THEN Len(STRATEGIES) ELSE 1) <= n
    /\ pc = "loop" /\ si = 1 /\ pi = 1 /\ yi = 1
    /\ alive = {} /\ started = 0 /\ invocations = <<>> /\ result = None
    \* results = {strategy: [] for strategy in STRATEGIES}
    /\ results = [s \in Range(STRATEGIES) |-> <<>>]
    /\ vresults = <<>>
    /\ csv = NoFile /\ writes = 0 /\ report = <<>>
    /\ evaluator = outs
    /\ proc = None /\ outcome = None

\* periods in any order, repeated or not
Init == Entry(MaxTrials, Lists(PeriodSet, MaxTrials), EvalOutputs)

\* the first periods of the configured list
FairInit == Entry(MaxFairTrials, Prefixes(AllPeriods, MaxFairTrials), FairOutputs)

(***************************************************************************)
(* The trial loops.                                                        *)
(***************************************************************************)
\* no iteration of the nested for loops is left
LoopDone ==
    \/ SYMBOLS = <<>>
    \/ PERIODS = <<>>
    \/ script = "compare_strategies" /\ si > Len(STRATEGIES)
    \/ script = "validate_risk_filter" /\ pi > Len(PERIODS)

\* the loop positions after the body of the current iteration
Advance ==
    IF yi < Len(SYMBOLS) THEN /\ yi' = yi + 1
                              /\ UNCHANGED <<pi, si>>
    ELSE IF pi < Len(PERIODS) \/ script = "validate_risk_filter"
         THEN /\ yi' = 1
              /\ pi' = pi + 1
              /\ UNCHANGED si
         ELSE /\ yi' = 1
              /\ pi' = 1
              /\ si' = si + 1

strategy == IF script = "compare_strategies" THEN STRATEGIES[si] ELSE "advanced"
period_name == PERIODS[pi][1]
start_date == PERIODS[pi][2]
end_date == PERIODS[pi][3]
symbol == SYMBOLS[yi]

\* cmd of run_benchmark: --symbol, --start, --end, --strategy
cmd == <<symbol, start_date, end_date, strategy>>

\* run_benchmark is called and subprocess.run spawns the evaluator
Launch ==
    /\ pc = "loop" /\ ~LoopDone
    /\ invocations' = Append(invocations, cmd)
    /\ started' = started + 1
    /\ alive' = alive \cup {started + 1}
    /\ pc' = "wait"
    /\ UNCHANGED <<script, PERIODS, SYMBOLS, STRATEGIES, si, pi, yi, result, results,
                   vresults, csv, writes, report, evaluator, proc, outcome>>

\* run_benchmark is called and subprocess.run cannot start the evaluator (OSError)
LaunchFails ==
    /\ pc = "loop" /\ ~LoopDone
    /\ invocations' = Append(invocations, cmd)
    /\ started' = started + 1
    /\ result' = ERROR_LAUNCH
    /\ pc' = "returned"
    /\ UNCHANGED <<script, PERIODS, SYMBOLS, STRATEGIES, si, pi, yi, alive, results,
                   vresults, csv, writes, report, evaluator, proc, outcome>>

\* the evaluator exits within the deadline: subprocess.run reaps it and returns
Exit(out, rc) ==
    /\ pc = "wait"
    /\ alive' = alive \ {started}
    /\ result' = Completed([stdout |-> out.stdout, stderr |-> out.stderr,
                            returncode |-> rc])
    /\ pc' = "returned"
    /\ UNCHANGED <<script, PERIODS, SYMBOLS, STRATEGIES, si, pi, yi, started, invocations,
                   results, vresults, csv, writes, report, evaluator, proc, outcome>>

\* as Expire, the evaluator neither killed nor waited for
ExpireWithoutKill ==
    /\ pc = "wait"
    /\ result' = TIMEOUT
    /\ pc' = "returned"
    /\ UNCHANGED <<script, PERIODS, SYMBOLS, STRATEGIES, si, pi, yi, alive, started,
                   invocations, results, vresults, csv, writes, report, evaluator, proc,
                   outcome>>

\* the deadline expires: subprocess.run kills the evaluator, waits for it and
\* raises TimeoutExpired
Expire ==
    /\ pc = "wait"
    /\ alive' = alive \ {started}
    /\ result' = TIMEOUT
    /\ pc' = "returned"
    /\ UNCHANGED <<script, PERIODS, SYMBOLS, STRATEGIES, si, pi, yi, started, invocations,
                   results, vresults, csv, writes, report, evaluator, proc, outcome>>

RECURSIVE Concat(_)
Concat(ss) == IF ss = <<>> THEN <<>> ELSE Head(ss) \o Concat(Tail(ss))

\* csv.DictWriter: the header row, then each dict's values in fieldnames order
DictWriter(fieldnames, rows) ==
    [header |-> fieldnames,
     rows |-> [i \in 1..Len(rows) |-> [j \in 1..Len(fieldnames) |-> rows[i][fieldnames[j]]]]]

\* as CompareRecord, a failed trial ending the loops
CompareRecordStoppingOnFailure ==
    /\ script = "compare_strategies" /\ pc = "returned"
    /\ results' = [results EXCEPT ![strategy] =
                     Append(@, [strategy |-> strategy, period |-> period_name,
                                symbol |-> symbol, return |-> result.return,
                                net |-> result.net, trades |-> result.trades,
                                status |-> result.status])]
    /\ result' = None
    /\ IF result.status = "SUCCESS"
       THEN Advance
       ELSE si' = Len(STRATEGIES) + 1 /\ pi' = 1 /\ yi' = 1
    /\ pc' = "loop"
    /\ UNCHANGED <<script, PERIODS, SYMBOLS, STRATEGIES, alive, started, invocations,
                   vresults, csv, writes, report, evaluator, proc, outcome>>

\* compare_strategies: results[strategy].append({...}) and on to the next iteration
CompareRecord ==
    /\ script = "compare_strategies" /\ pc = "returned"
    /\ results' = [results EXCEPT ![strategy] =
                     Append(@, [strategy |-> strategy, period |-> period_name,
                                symbol |-> symbol, return |-> result.return,
                                net |-> result.net, trades |-> result.trades,
                                status |-> result.status])]
    /\ result' = None
    /\ Advance
    /\ pc' = "loop"
    /\ UNCHANGED <<script, PERIODS, SYMBOLS, STRATEGIES, alive, started, invocations,
                   vresults, csv, writes, report, evaluator, proc, outcome>>

\* as ValidateRecord, the table rewritten after every trial
ValidateRecordAndFlush ==
    /\ script = "validate_risk_filter" /\ pc = "returned"
    /\ vresults' = Append(vresults,
                          [period |-> period_name, symbol |-> symbol,
                           start_date |-> start_date, end_date |-> end_date,
                           return |-> result.return, net |-> result.net,
                           trades |-> result.trades, status |-> result.status])
    /\ csv' = DictWriter(<<"period", "symbol", "start_date", "end_date", "return", "net",
                           "trades", "status">>, vresults')
    /\ result' = None
    /\ Advance
    /\ pc' = "loop"
    /\ UNCHANGED <<script, PERIODS, SYMBOLS, STRATEGIES, alive, started, invocations,
                   results, writes, report, evaluator, proc, outcome>>

\* validate_risk_filter: results.append({...}) and on to the next iteration
ValidateRecord ==
    /\ script = "validate_risk_filter" /\ pc = "returned"
    /\ vresults' = Append(vresults,
                          [period |-> period_name, symbol |-> symbol,
                           start_date |-> start_date, end_date |-> end_date,
                           return |-> result.return, net |-> result.net,
                           trades |-> result.trades, status |-> result.status])
    /\ result' = None
    /\ Advance
    /\ pc' = "loop"
    /\ UNCHANGED <<script, PERIODS, SYMBOLS, STRATEGIES, alive, started, invocations,
                   results, csv, writes, report, evaluator, proc, outcome>>

(***************************************************************************)
(* The table.                                                              *)
(***************************************************************************)
\* all_results: results[strategy] for each strategy in STRATEGIES, end to end
all_results == Concat([k \in 1..Len(STRATEGIES) |-> results[STRATEGIES[k]]])

CompareSave ==
    /\ script = "compare_strategies" /\ pc = "loop" /\ LoopDone
    /\ csv' = DictWriter(<<"strategy", "period", "symbol", "return", "net", "trades",
                           "status">>, all_results)
    /\ writes' = writes + 1
    /\ pc' = "saved"
    /\ UNCHANGED <<script, PERIODS, SYMBOLS, STRATEGIES, si, pi, yi, alive, started,
                   invocations, result, results, vresults, report, evaluator, proc, outcome>>

ValidateSave ==
    /\ script = "validate_risk_filter" /\ pc = "loop" /\ LoopDone
    /\ csv' = DictWriter(<<"period", "symbol", "start_date", "end_date", "return", "net",
                           "trades", "status">>, vresults)
    /\ writes' = writes + 1
    /\ pc' = "saved"
    /\ UNCHANGED <<script, PERIODS, SYMBOLS, STRATEGIES, si, pi, yi, alive, started,
                   invocations, result, results, vresults, report, evaluator, proc, outcome>>


(***************************************************************************)
(* The summaries.  A quotient a / b is kept exact, as <<a, b>>, and is     *)
(* only formed where the code divides (b is then the length of a non-empty *)
(* list).                                                                  *)
(***************************************************************************)
Quot(a, b) == <<a, b>>

\* sum(r[f] for r in rs) over decimals
RECURSIVE SumOf(_, _)
SumOf(rs, f) == IF rs = <<>> THEN Zero ELSE Add(Head(rs)[f], SumOf(Tail(rs), f))

\* sum(r['trades'] for r in rs)
RECURSIVE SumTrades(_)
SumTrades(rs) == IF rs = <<>> THEN 0 ELSE Head(rs).trades + SumTrades(Tail(rs))

\* [r for r in rs if r['status'] == 'SUCCESS']
Successful(rs) == SelectSeq(rs, LAMBDA r : r.status = "SUCCESS")

\* as Winners, with r['return'] >= 0
WinnersOrFlat(successful) == Len(SelectSeq(successful, LAMBDA r : r.return[1] >= 0))

\* sum(1 for r in successful if r['return'] > 0)
Winners(successful) == Len(SelectSeq(successful, LAMBDA r : Positive(r.return)))

\* compare_strategies, COMPARISON SUMMARY: the lines printed for one strategy
StrategySummary(s) ==
    LET successful == Successful(results[s]) IN
    IF successful # <<>>
    THEN << [section |-> "SUMMARY", strategy |-> s,
             avg_return |-> Quot(SumOf(successful, "return"), Len(successful)),
             total_profit |-> SumOf(successful, "net"),
             win_rate |-> Quot(Winners(successful), Len(successful)),
             total_trades |-> SumTrades(successful),
             avg_trades |-> Quot(SumTrades(successful), Len(successful))] >>
    ELSE <<>>

\* as PeriodResults, without the test of the period
PeriodResultsOfAnyPeriod(s, name) ==
    SelectSeq(results[s], LAMBDA r : r.status = "SUCCESS")

\* [r for r in results[strategy] if r['period'] == period_name and r['status'] == 'SUCCESS']
PeriodResults(s, name) ==
    SelectSeq(results[s], LAMBDA r : r.period = name /\ r.status = "SUCCESS")

\* compare_strategies, PERIOD BREAKDOWN: the line printed for one period and strategy
PeriodLine(name, s) ==
    LET period_results == PeriodResults(s, name) IN
    IF period_results # <<>>
    THEN << [section |-> "PERIOD_ROW", period |-> name, strategy |-> s,
             total |-> SumOf(period_results, "net"),
             avg |-> Quot(SumOf(period_results, "return"), Len(period_results))] >>
    ELSE <<>>

\* the heading of one period, then its lines
PeriodBlock(name) ==
    << [section |-> "PERIOD", period |-> name] >>
    \o Concat([k \in 1..Len(STRATEGIES) |-> PeriodLine(name, STRATEGIES[k])])

CompareReport ==
    /\ script = "compare_strategies" /\ pc = "saved"
    /\ report' = Concat([k \in 1..Len(STRATEGIES) |-> StrategySummary(STRATEGIES[k])])
                 \o Concat([p \in 1..Len(PERIODS) |-> PeriodBlock(PERIODS[p][1])])
    /\ pc' = "done"
    /\ UNCHANGED <<script, PERIODS, SYMBOLS, STRATEGIES, si, pi, yi, alive, started,
                   invocations, result, results, vresults, csv, writes, evaluator, proc, outcome>>

\* validate_risk_filter: Summary Statistics, or the warning
ValidateSummary ==
    LET successful == Successful(vresults)
        total_tests == Len(PERIODS) * Len(SYMBOLS)
    IN IF successful # <<>>
       THEN << [section |-> "SUMMARY",
                completed |-> Quot(Len(successful), total_tests),
                avg_return |-> Quot(SumOf(successful, "return"), Len(successful)),
                total_profit |-> SumOf(successful, "net"),
                win_rate |-> Quot(Winners(successful), Len(successful)),
                total_trades |-> SumTrades(successful),
                avg_trades |-> Quot(SumTrades(successful), Len(successful))] >>
       ELSE << [section |-> "NO_SUCCESSFUL_TESTS"] >>

ValidateReport ==
    /\ script = "validate_risk_filter" /\ pc = "saved"
    /\ report' = ValidateSummary
    /\ pc' = "done"
    /\ UNCHANGED <<script, PERIODS, SYMBOLS, STRATEGIES, si, pi, yi, alive, started,
                   invocations, result, results, vresults, csv, writes, evaluator, proc, outcome>>

Next ==
    \/ Launch
    \/ LaunchFails
    \/ \E out \in evaluator, rc \in ExitCodes : Exit(out, rc)
    \/ Expire
    \/ CompareRecord
    \/ ValidateRecord
    \/ CompareSave
    \/ ValidateSave
    \/ CompareReport
    \/ ValidateReport

Spec == Init /\ [][Next]_vars

\* main() is one sequential flow and each of its steps ends: the evaluator exits
\* or the deadline of subprocess.run expires
FairSpec == FairInit /\ [][Next]_vars /\ WF_vars(Next)


(***************************************************************************)
(* What the properties speak of.                                           *)
(***************************************************************************)
nStrategies == IF script = "compare_strategies" THEN Len(STRATEGIES) ELSE 1
StrategyAt(k) == IF script = "compare_strategies" THEN STRATEGIES[k] ELSE "advanced"

\* the generated sequence of trials: strategy outermost, then periods, symbols innermost
GeneratedTrials ==
    LET nP == Len(PERIODS)
        nY == Len(SYMBOLS)
    IN [i \in 1..(nStrategies * nP * nY) |->
          [strategy |-> StrategyAt(((i - 1) \div (nP * nY)) + 1),
           period |-> PERIODS[(((i - 1) \div nY) % nP) + 1],
           symbol |-> SYMBOLS[((i - 1) % nY) + 1]]]

\* the number of rows appended so far
RECURSIVE RowsOf(_)
RowsOf(S) ==
    IF S = {} THEN 0
    ELSE LET s == CHOOSE x \in S : TRUE IN Len(results[s]) + RowsOf(S \ {s})

Recorded ==
    IF script = "compare_strategies" THEN RowsOf(Range(STRATEGIES)) ELSE Len(vresults)

\* every row appended so far, in some order
AllRows ==
    IF script = "compare_strategies"
    THEN UNION {Range(results[s]) : s \in Range(STRATEGIES)}
    ELSE Range(vresults)

Column(row, name) == row[CHOOSE j \in 1..Len(csv.header) : csv.header[j] = name]

\* the positions in rs of the SUCCESS records, and of those with a return above 0
SuccessAt(rs) == {i \in 1..Len(rs) : rs[i].status = "SUCCESS"}
WinAt(rs) == {i \in 1..Len(rs) : rs[i].status = "SUCCESS" /\ rs[i].return[1] > 0}

RECURSIVE SumLines(_, _)
SumLines(ls, f) == IF ls = <<>> THEN Zero ELSE Add(Head(ls)[f], SumLines(Tail(ls), f))

RECURSIVE SumCounts(_, _)
SumCounts(ls, f) == IF ls = <<>> THEN 0 ELSE Head(ls)[f][2] + SumCounts(Tail(ls), f)

Text == proc.stdout \o proc.stderr


(***************************************************************************)
(* C1.  After a run the persisted table holds exactly                      *)
(* |periods| x |symbols| x |strategies| rows (|periods| x |symbols| in     *)
(* validate_risk_filter), and its i-th row is the i-th trial of the        *)
(* generated sequence, whatever the configured lists contain.              *)
(***************************************************************************)
RowIsTrial(row, trial) ==
    /\ Column(row, "period") = trial.period[1]
    /\ Column(row, "symbol") = trial.symbol
    /\ script = "compare_strategies" => Column(row, "strategy") = trial.strategy
    /\ script = "validate_risk_filter" =>
          /\ Column(row, "start_date") = trial.period[2]
          /\ Column(row, "end_date") = trial.period[3]

C1_TableIsGeneratedSequence ==
    pc \in {"saved", "done"} =>
        /\ Len(csv.rows) = Len(GeneratedTrials)
        /\ \A i \in 1..Len(csv.rows) : RowIsTrial(csv.rows[i], GeneratedTrials[i])

(***************************************************************************)
(* C2.  Whatever the outcome of each trial, the evaluator is invoked       *)
(* exactly once for every generated trial, in order, exactly one outcome   *)
(* is recorded for each invocation, no trial is retried or skipped, and    *)
(* the run eventually reaches its persist-and-report step.                 *)
(***************************************************************************)
CmdOf(trial) == <<trial.symbol, trial.period[2], trial.period[3], trial.strategy>>

InvokedInOrder ==
    /\ Len(invocations) <= Len(GeneratedTrials)
    /\ \A i \in 1..Len(invocations) : invocations[i] = CmdOf(GeneratedTrials[i])
    /\ started = Len(invocations)

OneOutcomeEach ==
    /\ pc = "loop" => Recorded = Len(invocations)
    /\ pc \in {"wait", "returned"} => Recorded = Len(invocations) - 1
    /\ pc \in {"saved", "done"} =>
          /\ Len(invocations) = Len(GeneratedTrials)
          /\ Recorded = Len(GeneratedTrials)

C2_EveryTrialRunsOnce ==
    /\ [](InvokedInOrder /\ OneOutcomeEach)
    /\ <>(pc = "done")

\* a trial that failed is followed by one that ran, and the run is over
C2_Witness ==
    /\ pc = "done"
    /\ script = "validate_risk_filter"
    /\ Len(vresults) = 2
    /\ vresults[1].status = "TIMEOUT"
    /\ vresults[2].status = "SUCCESS"

(***************************************************************************)
(* C3.  The reported win rate of a segment is the number of its records    *)
(* with status SUCCESS and a return strictly above 0, over the number of   *)
(* its records with status SUCCESS; the other records count in neither.    *)
(***************************************************************************)
SegmentOf(line) ==
    IF script = "compare_strategies" THEN results[line.strategy] ELSE vresults

C3_WinRateOverSuccesses ==
    pc = "done" =>
        \A i \in 1..Len(report) :
            report[i].section = "SUMMARY" =>
                /\ report[i].win_rate[1] = Cardinality(WinAt(SegmentOf(report[i])))
                /\ report[i].win_rate[2] = Cardinality(SuccessAt(SegmentOf(report[i])))
                /\ report[i].win_rate[2] > 0

\* [Success +1%, Success -1%, Timeout] is reported as 1 / 2
C3_Witness ==
    /\ pc = "done"
    /\ script = "validate_risk_filter"
    /\ Len(vresults) = 3
    /\ vresults[1].status = "SUCCESS" /\ vresults[1].return = <<1, 0>>
    /\ vresults[2].status = "SUCCESS" /\ vresults[2].return = <<-1, 0>>
    /\ vresults[3].status = "TIMEOUT"
    /\ report[1].win_rate = <<1, 2>>

(***************************************************************************)
(* C4.  Every segment an aggregate is computed over that has no SUCCESS    *)
(* record gets an explicit "no successful tests" line in the report: the   *)
(* whole run (validate_risk_filter), each strategy of the comparison       *)
(* summary and each (period, strategy) pair of the period breakdown.       *)
(***************************************************************************)
NoDataLine(line) == line.section \in {"NO_SUCCESSFUL_TESTS", "NO_DATA"}

C4_NoDataIsReported ==
    pc = "done" =>
        /\ script = "validate_risk_filter" /\ SuccessAt(vresults) = {} =>
              \E i \in 1..Len(report) : NoDataLine(report[i])
        /\ script = "compare_strategies" =>
              \A s \in Range(STRATEGIES) :
                  /\ SuccessAt(results[s]) = {} =>
                        \E i \in 1..Len(report) :
                            /\ NoDataLine(report[i])
                            /\ report[i].strategy = s
                  /\ \A p \in 1..Len(PERIODS) :
                        {i \in SuccessAt(results[s]) :
                            results[s][i].period = PERIODS[p][1]} = {} =>
                            \E i \in 1..Len(report) :
                                /\ NoDataLine(report[i])
                                /\ report[i].strategy = s
                                /\ report[i].period = PERIODS[p][1]


(***************************************************************************)
(* C5.  For every captured text in which 'Return: 3.21%', 'Net: $42.10'    *)
(* and 'Trades: 7' occur in this order, with arbitrary characters between  *)
(* them (line breaks included) and arbitrary noise before and after,       *)
(* run_benchmark returns SUCCESS with return 3.21, net 42.10 and 7 trades. *)
(***************************************************************************)
Field1 == <<"Return:", " ", "3", ".", "2", "1", "%">>
Field2 == <<"Net:", " ", "$", "4", "2", ".", "1", "0">>
Field3 == <<"Trades:", " ", "7">>

OccursAt(t, f, i) == i + Len(f) - 1 <= Len(t) /\ SubSeq(t, i, i + Len(f) - 1) = f

FieldsInOrder(t) ==
    \E i, j, k \in 1..Len(t) :
        /\ OccursAt(t, Field1, i)
        /\ i + Len(Field1) <= j /\ OccursAt(t, Field2, j)
        /\ j + Len(Field2) <= k /\ OccursAt(t, Field3, k)

C5_FieldsFoundAcrossAnyText ==
    \A rc \in ExitCodes :
        outcome[rc] # None /\ FieldsInOrder(Text) =>
            outcome[rc] = [status |-> "SUCCESS", return |-> <<321, 2>>,
                           net |-> <<421, 1>>, trades |-> 7]

(***************************************************************************)
(* C6.  Parsing is total and two-valued: a captured text that matches the  *)
(* performance pattern gives SUCCESS, one that does not gives PARSE_ERROR  *)
(* with return = net = trades = 0, and no text gives any other status.     *)
(***************************************************************************)
C6_SuccessOrParseError ==
    \A rc \in ExitCodes :
        outcome[rc] # None =>
            IF re_search(Text).ok
            THEN outcome[rc].status = "SUCCESS"
            ELSE outcome[rc] = [status |-> "PARSE_ERROR", return |-> Zero,
                                net |-> Zero, trades |-> 0]

(***************************************************************************)
(* C7.  The outcome of a completed invocation depends on the captured text *)
(* only: the same text with exit code zero and with a non-zero exit code   *)
(* gives the same outcome, SUCCESS when the report line is there.          *)
(***************************************************************************)
C7_ExitCodeIgnored ==
    \A a, b \in ExitCodes :
        outcome[a] # None /\ outcome[b] # None => outcome[a] = outcome[b]

\* a matching report, completed with exit code 0 and with exit code 1
C7_Witness ==
    /\ script = "run_benchmark"
    /\ outcome[0] # None /\ outcome[1] # None
    /\ outcome[1].status = "SUCCESS"
    /\ outcome[0].status = "SUCCESS"

(***************************************************************************)
(* C8.  At most one evaluator process is alive at any moment: a trial      *)
(* starts only when the process of the trial before has exited or, its     *)
(* deadline expired, has been killed and reaped; a timed-out trial is      *)
(* recorded as TIMEOUT with return = net = trades = 0, and no process is   *)
(* left while later trials run or after the run.                           *)
(***************************************************************************)
C8_OneEvaluatorAtATime ==
    /\ Cardinality(alive) <= 1
    /\ pc = "wait" => alive = {started}
    /\ pc # "wait" => alive = {}
    /\ \A r \in AllRows \cup {result} :
          r.status = "TIMEOUT" => r.return = Zero /\ r.net = Zero /\ r.trades = 0

\* a trial timed out and the evaluator of the next trial is the only one running
C8_Witness ==
    /\ pc = "wait"
    /\ alive = {2}
    /\ \E r \in AllRows : r.status = "TIMEOUT"

(***************************************************************************)
(* C9.  The table is written once per run, and only after the outcome of   *)
(* the last generated trial is recorded: while a trial is outstanding      *)
(* there is no table file, and once written the table never changes.       *)
(***************************************************************************)
C9_TableWrittenOnceAtTheEnd ==
    /\ [](Recorded < Len(GeneratedTrials) => csv = NoFile /\ writes = 0)
    /\ [](pc \in {"loop", "wait", "returned"} => csv = NoFile)
    /\ [](writes <= 1)
    /\ [](pc \in {"saved", "done"} => writes = 1)
    /\ [][csv # NoFile => csv' = csv]_vars

\* the table of a finished run of several trials
C9_Witness ==
    /\ pc = "done"
    /\ writes = 1
    /\ Len(csv.rows) = 3

(***************************************************************************)
(* C10.  compare_strategies, period labels pairwise distinct: for each     *)
(* strategy the total P&L of its period-breakdown lines add up to the      *)
(* total P&L of its summary lines, and so do the numbers of SUCCESS        *)
(* records behind them.                                                    *)
(***************************************************************************)
DistinctLabels ==
    \A a, b \in 1..Len(PERIODS) : a # b => PERIODS[a][1] # PERIODS[b][1]

LinesOf(section, s) ==
    SelectSeq(report, LAMBDA l : l.section = section /\ l.strategy = s)

C10_BreakdownPartitionsSummary ==
    pc = "done" /\ script = "compare_strategies" /\ DistinctLabels =>
        \A s \in Range(STRATEGIES) :
            /\ SumLines(LinesOf("PERIOD_ROW", s), "total")
                 = SumLines(LinesOf("SUMMARY", s), "total_profit")
            /\ SumCounts(LinesOf("PERIOD_ROW", s), "avg")
                 = SumCounts(LinesOf("SUMMARY", s), "avg_return")

\* one strategy with a gain in one period and a loss in the other
C10_Witness ==
    /\ pc = "done" /\ script = "compare_strategies"
    /\ Len(PERIODS) = 2 /\ DistinctLabels
    /\ \E s \in Range(STRATEGIES) :
          /\ Len(LinesOf("PERIOD_ROW", s)) = 2
          /\ LinesOf("PERIOD_ROW", s)[1].total = <<2, 0>>
          /\ LinesOf("PERIOD_ROW", s)[2].total = <<-2, 0>>
          /\ LinesOf("SUMMARY", s)[1].total_profit = Zero

====
